---- MODULE Spec2Model ----
(***************************************************************************)
(* State-machine model of the user-management front-end:                   *)
(*   - the OAuth2 callback view (components/oauth2/OAuth2Callback.tsx),    *)
(*   - the password login form (components/login/Login.tsx),               *)
(*   - the session flag and the durable credentials (App.tsx).             *)
(* Strings that the code trims or tests for blankness are sequences of     *)
(* characters; messages shown to the user are opaque TLA+ strings.         *)
(***************************************************************************)
EXTENDS Naturals, Sequences, FiniteSets, TLC

VARIABLES
    route,            \* the front-end route being displayed (react-router location)
    navError,         \* location.state.oauth2Error carried by the last navigation
    isAuthenticated,  \* App: the session flag
    onLoginSuccessCalls, \* number of calls of handleLogin made so far
    localStorage,     \* durable keys token, userEmail
    sessionStorage,   \* transient keys oauth2_provider, oauth2_redirect_after_login, oauth2_frontend_origin
    url,              \* query parameters of the page URL
    onBackendPage,    \* isOnBackendSuccessPage of this load
    strictMode,       \* development build: StrictMode runs a mounted effect twice
    error,            \* OAuth2Callback state
    loading,          \* OAuth2Callback state
    showEmailInput,   \* OAuth2Callback state
    userEmail,        \* OAuth2Callback state
    token,            \* OAuth2Callback state
    runs,             \* the invocations of handleCallback, each at its suspend point
    settled,          \* what the fetch that settled last delivered, and to which invocation
    invocations,      \* number of invocations of the callback effect on this load
    probes,           \* number of requests issued to each endpoint on this load
    timers,           \* pending setTimeout callbacks (their error messages), in order
    redirectUrl,      \* parameters of the URL a full-page redirect was issued to
    formEvent,        \* the handler of the email form that ran last, and how many ran
    formData,         \* Login state: the email field
    loginLoading,     \* Login state
    loginError,       \* Login state
    inflight,         \* the login request awaiting its response (email captured at submit)
    submits,          \* number of login submissions so far
    lastResponse,     \* the response the last settled login request received
    helper,           \* the call of an OAuth2 helper function that is in progress
    outcome,          \* how the last call of an OAuth2 helper function ended
    verify,           \* the email verification view: URL token, state, ref, requests
    register,         \* the registration form: state and request in flight
    api,              \* a call of getApiUrl: environment, endpoint, result
    abandoned,        \* login requests still pending whose Login instance was unmounted
    flows             \* overlapping calls of initiateOAuth2Login awaiting their response

vars == << route, navError, isAuthenticated, onLoginSuccessCalls, localStorage,
           sessionStorage, url, onBackendPage, strictMode, error, loading,
           showEmailInput, userEmail, token, runs, settled, invocations,
           probes, timers, redirectUrl, formEvent, formData, loginLoading,
           loginError, inflight, submits, lastResponse, helper, outcome,
           verify, register, api, abandoned, flows >>

appVars == << route, navError, isAuthenticated, onLoginSuccessCalls, localStorage >>
loadVars == << url, onBackendPage, strictMode >>
viewVars == << error, loading, showEmailInput, userEmail, token >>
loginVars == << formData, loginLoading, loginError, inflight, submits, lastResponse >>
extVars == << helper, outcome, verify, register, api, abandoned, flows >>

----------------------------------------------------------------------------
(* Bounds *)

\* Login submissions explored in one behaviour.
MaxSubmits == 2

\* Invocations of the callback effect explored on one page load.
MaxInvocations == 2

\* Longest endpoint string given to getApiUrl.
MaxLen == 2

----------------------------------------------------------------------------
(* Strings *)

\* JavaScript null / an absent URL parameter / an absent storage key.
Null == <<"null">>

Empty == << >>

\* Token values a channel may deliver: empty, whitespace only, two distinct tokens.
Tokens == { << >>, <<" ">>, <<"t">>, <<"u">> }

\* Email values: empty, whitespace only, plain, and one that trim() changes.
Emails == { << >>, <<" ">>, <<"e">>, <<" ", "e">> }

RECURSIVE TrimStart(_)
TrimStart(s) == IF s # << >> /\ Head(s) = " " THEN TrimStart(Tail(s)) ELSE s

RECURSIVE TrimEnd(_)
TrimEnd(s) ==
    IF s # << >> /\ s[Len(s)] = " " THEN TrimEnd(SubSeq(s, 1, Len(s) - 1)) ELSE s

\* String.prototype.trim
Trim(s) == TrimEnd(TrimStart(s))

\* JavaScript truthiness of a string-or-null value.
Truthy(s) == s # Null /\ s # << >>

\* The code's test `x && x.trim() !== ''`.
NonBlank(s) == Truthy(s) /\ Trim(s) # << >>

\* a || b || c on string-or-null values
OrElse(a, b) == IF Truthy(a) THEN a ELSE b

----------------------------------------------------------------------------
(* Messages *)

NoError == "null"
MsgUrlTokenEmpty == "OAuth2 token is missing or empty. Please try logging in again."
MsgExchangeNoToken == "OAuth2 authentication succeeded but token is missing. Please try again."
MsgNotFound == "Authorization code or token not found. OAuth2 authentication may have failed. Please try logging in again."
MsgOAuth2Failed == "OAuth2 authentication failed"
MsgEnterEmail == "Please enter an email address"
MsgHttpError == "HTTP error! status"
MsgServerError == "Server error (status): text"
MsgExpectedJson == "Expected JSON but got"
MsgFetchFailed == "Failed to fetch"
MsgBadJson == "Unexpected token in JSON"
MsgLoginFailed == "Login failed"
MsgFailedToLogin == "Failed to login"
ServerMessages == { "Invalid credentials" }

----------------------------------------------------------------------------
(* Routes *)

CallbackRoute == "/oauth2/callback"
LoginRoute == "/login"
HomeRoute == "/"
\* The document was replaced through window.location.href.
Redirected == "window.location.href"

----------------------------------------------------------------------------
(* Page loads of the OAuth2 callback view *)

NoParam == "null"

UrlTokens == { Null, << >>, <<" ">>, <<"t">> }
UrlEmails == { Null, <<" ", "e">> }
UrlCodes == { Null, <<"c">> }

\* The query strings explored: every combination of token, email and code
\* without an `error`; an `error` alone with each combination of
\* error_description and message; and an `error` next to a token and a code.
\* The email parameter is only read together with a usable token.
Urls ==
    { u \in [ token : UrlTokens, email : UrlEmails, code : UrlCodes,
              error : { NoParam }, error_description : { NoParam },
              message : { NoParam } ] :
        u.email # Null => NonBlank(u.token) }
    \cup [ token : { Null }, email : { Null }, code : { Null },
           error : { "access_denied" },
           error_description : { NoParam, "denied by user" },
           message : { NoParam, "provider message" } ]
    \cup { [ token |-> <<"t">>, email |-> Null, code |-> <<"c">>,
             error |-> "access_denied", error_description |-> "denied by user",
             message |-> NoParam ] }

FlowKeys == { "oauth2_provider", "oauth2_redirect_after_login", "oauth2_frontend_origin" }

\* Session storage as initiateOAuth2Login leaves it before the browser goes
\* to the provider, and an empty one.
FlowStatePresent ==
    [ k \in FlowKeys |->
        CASE k = "oauth2_provider" -> <<"github">>
          [] k = "oauth2_redirect_after_login" -> <<"/login">>
          [] OTHER -> <<"origin">> ]
FlowStateAbsent == [ k \in FlowKeys |-> Null ]

NoCredentials == [ token |-> Null, userEmail |-> Null ]
StaleCredentials == [ token |-> <<"u">>, userEmail |-> <<"e">> ]

Runs == 1 .. MaxInvocations

NoInput == [ run |-> 0, ch |-> 0, kind |-> "none", tok |-> Null ]
IdleRun == [ pc |-> "idle", tok0 |-> << >>, tried |-> << >> ]

NoFormEvent == [ n |-> 0, kind |-> "none" ]

NoProbes == [ c1 |-> 0, c2 |-> 0, c4 |-> 0 ]
NoRedirect == [ token |-> Null, email |-> Null ]

NoResponse ==
    [ kind |-> "none", ok |-> FALSE, json |-> FALSE, parses |-> FALSE,
      message |-> NoError, token |-> Null ]

LoginIdle ==
    /\ formData = [ email |-> << >> ]
    /\ loginLoading = FALSE
    /\ loginError = NoError
    /\ inflight = Null
    /\ submits = 0
    /\ lastResponse = NoResponse

NoCall == [ pc |-> "idle", provider |-> Null, pathname |-> Null ]
\* A response as the helper functions look at it.
NoHelperResponse ==
    [ kind |-> "none", ok |-> FALSE, json |-> FALSE, parses |-> FALSE,
      message |-> NoError, authUrl |-> Null, token |-> Null ]

NoOutcome ==
    [ fn |-> "none", kind |-> "none", error |-> NoError, url |-> Null,
      token |-> Null, resp |-> NoHelperResponse ]

\* VerifyEmail.tsx 8-13: the verification view before it is shown.
NoVerifyResponse ==
    [ kind |-> "none", ok |-> FALSE, json |-> FALSE, parses |-> FALSE,
      notFound |-> FALSE, message |-> NoError ]

VerifyIdle ==
    [ token |-> Null, status |-> "loading", isEmailNotFound |-> FALSE,
      hasVerifiedRef |-> FALSE,
      pending |-> << >>,     \* tokens of the requests awaiting their response
      shown |-> << >>,       \* tokens this instance was rendered with, in order
      requests |-> << >>,    \* tokens this instance sent to the backend, in order
      resp |-> NoVerifyResponse ]

\* Register.tsx 16-27: the registration form before it is used.
RegisterIdle ==
    [ password |-> << >>, confirmPassword |-> << >>, loading |-> FALSE,
      error |-> NoError, success |-> FALSE, inflight |-> FALSE,
      resp |-> NoResponse ]

NoApiCall == [ dev |-> TRUE, base |-> << >>, endpoint |-> << >>, result |-> Null ]

\* The helper functions, the verification view, the registration form and
\* getApiUrl are not in use.
ExtIdle ==
    /\ helper = NoCall
    /\ outcome = NoOutcome
    /\ verify = VerifyIdle
    /\ register = RegisterIdle
    /\ abandoned = << >>
    /\ flows = << >>
    /\ api = NoApiCall

\* OAuth2Callback.tsx 12-17: the state of a freshly constructed callback view.
ViewInit ==
    /\ error = NoError
    /\ loading = TRUE
    /\ showEmailInput = FALSE
    /\ userEmail = << >>
    /\ token = << >>

\* Arrival at /oauth2/callback: the view is constructed, its effect has not
\* run.  The session is authenticated, with credentials stored, when the
\* running app comes back to the route after a login (history navigation).
Init ==
    /\ route = CallbackRoute
    /\ navError = NoError
    /\ isAuthenticated \in BOOLEAN
    /\ onLoginSuccessCalls = 0
    /\ localStorage = IF isAuthenticated THEN StaleCredentials ELSE NoCredentials
    /\ sessionStorage \in { FlowStatePresent, FlowStateAbsent }
    /\ url \in Urls
    /\ onBackendPage \in BOOLEAN
    /\ strictMode \in BOOLEAN
    /\ ViewInit
    /\ runs = [ r \in Runs |-> IdleRun ]
    /\ settled = NoInput
    /\ invocations = 0
    /\ probes = NoProbes
    /\ timers = << >>
    /\ redirectUrl = NoRedirect
    /\ formEvent = NoFormEvent
    /\ LoginIdle
    /\ ExtIdle

----------------------------------------------------------------------------
(* OAuth2Callback: handleCallback *)

Mounted == route = CallbackRoute
PageAlive == route # Redirected

\* A state setter of the callback view: ignored once the view is unmounted.
Set(old, new) == IF Mounted THEN new ELSE old

\* The view leaves the page: React discards the state of the unmounted instance.
Unmount ==
    /\ error' = NoError
    /\ loading' = TRUE
    /\ showEmailInput' = FALSE
    /\ userEmail' = << >>
    /\ token' = << >>

\* OAuth2Callback.tsx 20-43 / 92-100: the synchronous prefix of handleCallback,
\* up to its first fetch.
NewRun ==
    [ pc |-> IF onBackendPage THEN "fetch1" ELSE "fetch2",
      tok0 |-> token,
      tried |-> IF onBackendPage THEN <<1>> ELSE <<2>> ]

FirstProbe(p, n) ==
    IF onBackendPage THEN [ p EXCEPT !.c1 = @ + n ] ELSE [ p EXCEPT !.c2 = @ + n ]

\* The effect runs handleCallback n more times (OAuth2Callback.tsx 19-23, 265-266).
InvokeEffect(n) ==
    /\ runs' = [ r \in Runs |->
                   IF r > invocations /\ r <= invocations + n THEN NewRun ELSE runs[r] ]
    /\ invocations' = invocations + n
    /\ probes' = FirstProbe(probes, n)
    /\ loading' = TRUE
    /\ error' = NoError

\* main.tsx 10-16, OAuth2Callback.tsx 19-266: the view mounts and its effect
\* runs, twice under StrictMode in a development build.
Mount ==
    /\ Mounted
    /\ invocations = 0
    /\ InvokeEffect(IF strictMode THEN 2 ELSE 1)
    /\ UNCHANGED << appVars, loadVars, sessionStorage, showEmailInput,
                    userEmail, token, settled, timers, redirectUrl, formEvent,
                    loginVars >>
    /\ UNCHANGED extVars

\* Capture without setToken: the form is requested but the token is dropped.
CaptureWithoutToken(t, e) ==
    /\ userEmail' = Set(userEmail, e)
    /\ showEmailInput' = Set(showEmailInput, TRUE)
    /\ loading' = Set(loading, FALSE)
    /\ UNCHANGED << token, error, localStorage, isAuthenticated, onLoginSuccessCalls,
                    sessionStorage, timers, route, navError, redirectUrl >>

\* Capture that writes the token to localStorage at once instead of holding it.
CaptureStoringToken(t, e) ==
    /\ token' = Set(token, t)
    /\ userEmail' = Set(userEmail, e)
    /\ showEmailInput' = Set(showEmailInput, TRUE)
    /\ loading' = Set(loading, FALSE)
    /\ localStorage' = [ localStorage EXCEPT !.token = t ]
    /\ UNCHANGED << error, isAuthenticated, onLoginSuccessCalls,
                    sessionStorage, timers, route, navError, redirectUrl >>

\* OAuth2Callback.tsx 107-123, 146-161, 209-227: a token was found; it is held
\* in component state and the email form is requested.
Capture(t, e) ==
    /\ token' = Set(token, t)
    /\ userEmail' = Set(userEmail, e)
    /\ showEmailInput' = Set(showEmailInput, TRUE)
    /\ loading' = Set(loading, FALSE)
    /\ UNCHANGED << error, localStorage, isAuthenticated, onLoginSuccessCalls,
                    sessionStorage, timers, route, navError, redirectUrl >>

\* OAuth2Callback.tsx 238-243: a token is already in the state the effect closed over.
ShowFromState ==
    /\ showEmailInput' = Set(showEmailInput, TRUE)
    /\ loading' = Set(loading, FALSE)
    /\ UNCHANGED << error, token, userEmail, localStorage,
                    isAuthenticated, onLoginSuccessCalls, sessionStorage, timers,
                    route, navError, redirectUrl >>

\* OAuth2Callback.tsx 246-262: the outer catch and finally of handleCallback.
Fail(msg) ==
    /\ error' = Set(error, msg)
    /\ loading' = Set(loading, FALSE)
    /\ sessionStorage' = FlowStateAbsent
    /\ timers' = Append(timers, msg)
    /\ UNCHANGED << token, userEmail, showEmailInput, localStorage,
                    isAuthenticated, onLoginSuccessCalls, route, navError,
                    redirectUrl >>

\* OAuth2Callback.tsx 52-60, 71-79: the browser is sent to the front-end
\* callback URL carrying the token (and the email when there is one).
RedirectToFrontend(t, e) ==
    /\ route' = Redirected
    /\ redirectUrl' = [ token |-> t, email |-> IF Truthy(e) THEN e ELSE Null ]
    /\ Unmount
    /\ UNCHANGED << localStorage, isAuthenticated, onLoginSuccessCalls,
                    sessionStorage, timers, navError >>

\* handleCallback stays suspended at its next fetch.
Suspend ==
    UNCHANGED << viewVars, localStorage, isAuthenticated, onLoginSuccessCalls,
                 sessionStorage, timers, route, navError, redirectUrl >>

Finish(r, l, tr) ==
    /\ runs' = [ runs EXCEPT ![r] = [ @ EXCEPT !.pc = "done", !.tried = tr ] ]
    /\ settled' = l

Await(r, next, l, tr) ==
    /\ runs' = [ runs EXCEPT ![r] = [ @ EXCEPT !.pc = next, !.tried = tr ] ]
    /\ settled' = l

\* What the backend success page (channel 1) may answer.
Responses1 ==
    { [ kind |-> k, token |-> Null, email |-> Null ] : k \in { "rejected", "notok", "html" } }
    \cup [ kind : { "json" }, token : { Null, << >>, <<" ">>, <<"u">> }, email : { Null } ]
    \cup [ kind : { "json" }, token : { <<"t">> }, email : { Null, <<"e">> } ]

\* OAuth2Callback.tsx 33-90: the fetch of the backend success page settles.
Fetch1Settle(r) ==
    /\ PageAlive
    /\ runs[r].pc = "fetch1"
    /\ \E resp \in Responses1 :
        LET tok == IF resp.kind = "html" THEN url.token ELSE resp.token
            mail == IF resp.kind = "html" THEN url.email ELSE resp.email
            l == [ run |-> r, ch |-> 1, kind |-> resp.kind, tok |-> tok ]
        IN  IF resp.kind \in { "json", "html" } /\ NonBlank(tok)
            THEN \* lines 51-60 and 70-79
                 /\ RedirectToFrontend(tok, mail)
                 /\ Finish(r, l, runs[r].tried)
                 /\ probes' = probes
            ELSE \* lines 61-64, 80-84 throw into the catch of line 87; then line 94
                 /\ Suspend
                 /\ Await(r, "fetch2", l, Append(runs[r].tried, 2))
                 /\ probes' = [ probes EXCEPT !.c2 = @ + 1 ]
    /\ UNCHANGED << loadVars, invocations, formEvent, loginVars >>
    /\ UNCHANGED extVars

\* The message of an `error` redirect, preferring `message` to
\* `error_description`.
ErrorDescriptionMessageFirst(u) ==
    IF u.message \notin { NoParam, "" } THEN u.message
    ELSE IF u.error_description \notin { NoParam, "" } THEN u.error_description
    ELSE MsgOAuth2Failed

\* OAuth2Callback.tsx 140: the message of an `error` redirect.
ErrorDescription(u) ==
    IF u.error_description \notin { NoParam, "" } THEN u.error_description
    ELSE IF u.message \notin { NoParam, "" } THEN u.message
    ELSE MsgOAuth2Failed

\* What GET /api/oauth2/success (channel 2) may answer.  The email fields are
\* only read next to a truthy token and vary next to one of the tokens.
Responses2 ==
    { [ kind |-> k, token |-> Null, userEmail |-> Null, email |-> Null ] :
        k \in { "rejected", "notok", "nonjson" } }
    \cup [ kind : { "json" }, token : { Null, << >> }, userEmail : { Null },
           email : { Null } ]
    \cup [ kind : { "json" }, token : { <<" ">>, <<"u">> }, userEmail : { Null },
           email : { Null } ]
    \cup [ kind : { "json" }, token : { <<"t">> }, userEmail : { Null, <<"e">> },
           email : { Null, <<" ", "e">> } ]

\* OAuth2Callback.tsx 114, 218: data.user?.email || data.email || ''
EmailFromOAuth(resp) == OrElse(resp.userEmail, OrElse(resp.email, << >>))

\* OAuth2Callback.tsx 92-245: the success-endpoint fetch settles; without a
\* token from it the URL parameters are inspected and, with a code, the
\* exchange request is issued.
Fetch2Settle(r) ==
    /\ PageAlive
    /\ runs[r].pc = "fetch2"
    /\ \E resp \in Responses2 :
        LET tr3 == Append(runs[r].tried, 3)
            l3 == [ run |-> r, ch |-> 3, kind |-> "url", tok |-> url.token ]
        IN  IF resp.kind = "json" /\ Truthy(resp.token)
            THEN \* lines 107-123
                 /\ Capture(resp.token, EmailFromOAuth(resp))
                 /\ Finish(r, [ run |-> r, ch |-> 2, kind |-> "json", tok |-> resp.token ], runs[r].tried)
                 /\ probes' = probes
            ELSE IF url.error \notin { NoParam, "" }
            THEN \* lines 139-142
                 /\ Fail(ErrorDescription(url))
                 /\ Finish(r, l3, tr3)
                 /\ probes' = probes
            ELSE IF NonBlank(url.token)
            THEN \* lines 146-161
                 /\ Capture(url.token, OrElse(url.email, << >>))
                 /\ Finish(r, l3, tr3)
                 /\ probes' = probes
            ELSE IF url.token # Null
            THEN \* lines 162-166
                 /\ Fail(MsgUrlTokenEmpty)
                 /\ Finish(r, l3, tr3)
                 /\ probes' = probes
            ELSE IF Truthy(url.code)
            THEN \* lines 169-186
                 /\ Suspend
                 /\ Await(r, "fetch3", l3, Append(tr3, 4))
                 /\ probes' = [ probes EXCEPT !.c4 = @ + 1 ]
            ELSE IF Truthy(runs[r].tok0)
            THEN \* lines 238-243
                 /\ ShowFromState
                 /\ Finish(r, l3, tr3)
                 /\ probes' = probes
            ELSE \* line 245
                 /\ Fail(MsgNotFound)
                 /\ Finish(r, l3, tr3)
                 /\ probes' = probes
    /\ UNCHANGED << loadVars, invocations, formEvent, loginVars >>
    /\ UNCHANGED extVars

\* What POST /api/oauth2/callback (channel 4) may answer: a rejected fetch, a
\* non-2xx JSON body with or without a message, a 2xx body that is not JSON,
\* a 2xx JSON body.  The email fields are only read next to a usable token.
Responses4 ==
    { [ kind |-> k, token |-> Null, userEmail |-> Null, email |-> Null, message |-> NoError ] :
        k \in { "rejected", "nonjson" } }
    \cup [ kind : { "notok" }, token : { Null }, userEmail : { Null }, email : { Null },
           message : ServerMessages \cup { NoError } ]
    \cup [ kind : { "json" }, token : { Null, << >>, <<" ">>, <<"u">> },
           userEmail : { Null }, email : { Null }, message : { NoError } ]
    \cup [ kind : { "json" }, token : { <<"t">> },
           userEmail : { Null, <<"e">> }, email : { Null, <<" ", "e">> },
           message : { NoError } ]

\* OAuth2Callback.tsx 188-215: the error the exchange raises without a usable token.
ExchangeError(resp) ==
    CASE resp.kind = "rejected" -> MsgFetchFailed
      [] resp.kind = "notok" ->
            IF resp.message # NoError THEN resp.message ELSE MsgHttpError
      [] resp.kind = "nonjson" -> MsgExpectedJson
      [] OTHER -> MsgExchangeNoToken

\* OAuth2Callback.tsx 188-228: the code exchange settles.
Fetch3Settle(r) ==
    /\ PageAlive
    /\ runs[r].pc = "fetch3"
    /\ \E resp \in Responses4 :
        LET l == [ run |-> r, ch |-> 4, kind |-> resp.kind, tok |-> resp.token ]
        IN  /\ IF resp.kind = "json" /\ NonBlank(resp.token)
               THEN Capture(resp.token, EmailFromOAuth(resp))
               ELSE Fail(ExchangeError(resp))
            /\ Finish(r, l, runs[r].tried)
    /\ UNCHANGED << loadVars, invocations, probes, formEvent, loginVars >>
    /\ UNCHANGED extVars

\* OAuth2Callback.tsx 257-259, Login.tsx 28-35: a scheduled redirect fires;
\* the login page shows the message it carries.
TimerFire ==
    /\ PageAlive
    /\ timers # << >>
    /\ timers' = Tail(timers)
    /\ route' = LoginRoute
    /\ navError' = Head(timers)
    /\ loginError' = Head(timers)
    /\ Unmount
    /\ UNCHANGED << isAuthenticated, onLoginSuccessCalls, localStorage, sessionStorage,
                    loadVars, runs, settled, invocations, probes, redirectUrl,
                    formEvent, formData, loginLoading, inflight, submits, lastResponse >>
    /\ UNCHANGED extVars

----------------------------------------------------------------------------
(* OAuth2Callback: the email confirmation form *)

\* OAuth2Callback.tsx 268-306: the loading screen, then the failure screen,
\* then the email form.
FailureScreenShown == Mounted /\ ~loading /\ error # NoError
FormRendered == Mounted /\ ~loading /\ error = NoError /\ showEmailInput

\* OAuth2Callback.tsx 373-376: onChange of the email input.
handleEmailChange(e) ==
    /\ FormRendered
    /\ userEmail' = e
    /\ error' = NoError
    /\ UNCHANGED << appVars, sessionStorage, loadVars, loading, showEmailInput,
                    token, runs, settled, invocations, probes, timers,
                    redirectUrl, formEvent, loginVars >>
    /\ UNCHANGED extVars

\* App.tsx 158-160: handleLogin.
handleLogin ==
    /\ isAuthenticated' = TRUE
    /\ onLoginSuccessCalls' = onLoginSuccessCalls + 1

\* The email stored as typed, without trim().
StoredEmailUntrimmed(e) == e

\* OAuth2Callback.tsx 323: the email that is stored.
StoredEmail(e) == Trim(e)

\* OAuth2Callback.tsx 320-322: the token key is written only for a truthy token.
StoredToken(old, t) == IF Truthy(t) THEN t ELSE old

\* OAuth2Callback.tsx 330-332, 404-405: the keys the form's handlers remove.
ClearedByForm(ss) ==
    [ ss EXCEPT !["oauth2_redirect_after_login"] = Null, !["oauth2_provider"] = Null ]

\* OAuth2Callback.tsx 309-336: submit of the email form.
handleEmailSubmit ==
    /\ FormRendered
    /\ IF Trim(userEmail) = << >>
       THEN \* lines 312-315
            /\ error' = MsgEnterEmail
            /\ UNCHANGED << appVars, sessionStorage, loading, showEmailInput,
                            userEmail, token >>
       ELSE \* lines 317-335
            /\ localStorage' = [ token |-> StoredToken(localStorage.token, token),
                                 userEmail |-> StoredEmail(userEmail) ]
            /\ handleLogin
            /\ sessionStorage' = ClearedByForm(sessionStorage)
            /\ route' = HomeRoute
            /\ navError' = NoError
            /\ Unmount
    /\ formEvent' = [ n |-> formEvent.n + 1, kind |-> "submit" ]
    /\ UNCHANGED << loadVars, runs, settled, invocations, probes, timers, redirectUrl,
                    loginVars >>
    /\ UNCHANGED extVars

\* OAuth2Callback.tsx 401-407: the Cancel button.
Cancel ==
    /\ FormRendered
    /\ sessionStorage' = ClearedByForm(sessionStorage)
    /\ route' = LoginRoute
    /\ navError' = NoError
    /\ loginError' = NoError
    /\ Unmount
    /\ formEvent' = [ n |-> formEvent.n + 1, kind |-> "cancel" ]
    /\ UNCHANGED << isAuthenticated, onLoginSuccessCalls, localStorage, loadVars,
                    runs, settled, invocations, probes, timers, redirectUrl,
                    formData, loginLoading, inflight, submits, lastResponse >>
    /\ UNCHANGED extVars

\* The route is a constant of App.tsx 182.
UserAccountRoute == "/user-account"

\* App.tsx 162-168, Navbar.tsx 14-16: Logout, offered while authenticated.  App
\* renders again with a new handleLogin, so a mounted callback view re-runs
\* its effect (OAuth2Callback.tsx 266); on /user-account the route's element
\* becomes <Navigate to="/login" replace /> (App.tsx 184-188).
handleLogout ==
    /\ PageAlive
    /\ isAuthenticated
    /\ Mounted => invocations > 0 /\ invocations < MaxInvocations
    /\ isAuthenticated' = FALSE
    /\ localStorage' = NoCredentials
    /\ IF Mounted
       THEN InvokeEffect(1)
       ELSE UNCHANGED << runs, invocations, probes, loading, error >>
    /\ route' = IF route = UserAccountRoute THEN LoginRoute ELSE route
    /\ UNCHANGED << navError, onLoginSuccessCalls, sessionStorage, loadVars,
                    showEmailInput, userEmail, token, settled, timers,
                    redirectUrl, formEvent, loginVars >>
    /\ UNCHANGED extVars

Next ==
    \/ Mount
    \/ \E r \in Runs : Fetch1Settle(r)
    \/ \E r \in Runs : Fetch2Settle(r)
    \/ \E r \in Runs : Fetch3Settle(r)
    \/ TimerFire
    \/ \E e \in Emails : handleEmailChange(e)
    \/ handleEmailSubmit
    \/ Cancel
    \/ handleLogout

Spec == Init /\ [][Next]_vars

----------------------------------------------------------------------------
(* Login: the password login form *)

\* Login.tsx 37-45: handleChange of the email field.
handleChange(e) ==
    /\ route = LoginRoute
    /\ formData' = [ formData EXCEPT !.email = e ]
    /\ loginError' = NoError
    /\ UNCHANGED << appVars, sessionStorage, loadVars, viewVars, runs, settled,
                    invocations, probes, timers, redirectUrl, formEvent,
                    loginLoading, inflight, submits, lastResponse >>
    /\ UNCHANGED extVars

\* Login.tsx 47-62, 173-176: submit, offered while the form is not loading;
\* the request carries the email of the render that was submitted.
handleSubmit ==
    /\ route = LoginRoute
    /\ ~loginLoading
    /\ submits < MaxSubmits
    /\ loginLoading' = TRUE
    /\ loginError' = NoError
    /\ inflight' = formData.email
    /\ submits' = submits + 1
    /\ UNCHANGED << appVars, sessionStorage, loadVars, viewVars, runs, settled,
                    invocations, probes, timers, redirectUrl, formEvent, formData,
                    lastResponse >>
    /\ UNCHANGED extVars

\* What POST /api/auth/login may answer: a rejected fetch (with an Error or
\* with another value), or an HTTP response: 2xx or not, JSON content type or
\* not, a body that parses or not, with or without message and token.
LoginResponses ==
    [ kind : { "rejected" }, ok : { FALSE }, json : { FALSE }, parses : BOOLEAN,
      message : { NoError }, token : { Null } ]
    \cup [ kind : { "http" }, ok : { FALSE }, json : BOOLEAN, parses : BOOLEAN,
           message : ServerMessages \cup { NoError }, token : { Null } ]
    \cup [ kind : { "http" }, ok : { TRUE }, json : { FALSE }, parses : { FALSE },
           message : { NoError }, token : { Null } ]
    \cup [ kind : { "http" }, ok : { TRUE }, json : { TRUE }, parses : { FALSE },
           message : { NoError }, token : { Null } ]
    \cup [ kind : { "http" }, ok : { TRUE }, json : { TRUE }, parses : { TRUE },
           message : { NoError, "Login successful" }, token : Tokens \cup { Null } ]

\* A success test that looks at the status only, not at the content type.
LoginSucceedsAnyOk(resp) == resp.kind = "http" /\ resp.ok

\* Login.tsx 64-82: the response is a success when it is 2xx JSON that parses.
LoginSucceeds(resp) == resp.kind = "http" /\ resp.ok /\ resp.json /\ resp.parses

\* Login.tsx 64-80, 100-101: the message a failed login displays.  A rejected
\* fetch carries an Error (parses) or some other value.
LoginErrorMessage(resp) ==
    CASE resp.kind = "rejected" ->
            IF resp.parses THEN MsgFetchFailed ELSE MsgFailedToLogin
      [] resp.kind = "http" /\ ~resp.ok /\ resp.json ->
            IF ~resp.parses THEN MsgLoginFailed
            ELSE IF resp.message # NoError THEN resp.message ELSE MsgHttpError
      [] resp.kind = "http" /\ ~resp.ok /\ ~resp.json -> MsgServerError
      [] resp.kind = "http" /\ resp.ok /\ ~resp.json -> MsgExpectedJson
      [] OTHER -> MsgBadJson

\* A successful login that stores the email field as it is when the response
\* arrives rather than the email that was submitted.
LoginSuccessCurrentField(resp) ==
    /\ localStorage' =
          [ token |-> IF Truthy(resp.token) THEN resp.token ELSE localStorage.token,
            userEmail |-> formData.email ]
    /\ handleLogin
    /\ route' = HomeRoute
    /\ navError' = NoError
    /\ formData' = [ email |-> << >> ]
    /\ loginError' = NoError
    /\ loginLoading' = FALSE

\* A successful login that writes the token key whatever the response holds.
LoginSuccessWritingToken(resp) ==
    /\ localStorage' = [ token |-> resp.token, userEmail |-> inflight ]
    /\ handleLogin
    /\ route' = HomeRoute
    /\ navError' = NoError
    /\ formData' = [ email |-> << >> ]
    /\ loginError' = NoError
    /\ loginLoading' = FALSE

\* Login.tsx 85-99: what a successful login stores and does.
LoginSuccess(resp) ==
    /\ localStorage' =
          [ token |-> IF Truthy(resp.token) THEN resp.token ELSE localStorage.token,
            userEmail |-> inflight ]
    /\ handleLogin
    /\ route' = HomeRoute
    /\ navError' = NoError
    /\ formData' = [ email |-> << >> ]
    /\ loginError' = NoError
    /\ loginLoading' = FALSE

\* A failed login that raises the session flag all the same.
LoginFailureStartingSession(resp) ==
    /\ loginError' = LoginErrorMessage(resp)
    /\ loginLoading' = FALSE
    /\ handleLogin
    /\ UNCHANGED << route, navError, localStorage, formData >>

\* Login.tsx 100-105: what a failed login does.
LoginFailure(resp) ==
    /\ loginError' = LoginErrorMessage(resp)
    /\ loginLoading' = FALSE
    /\ UNCHANGED << appVars, formData >>

\* Login.tsx 64-105: the login request settles.
LoginSettle ==
    /\ inflight # Null
    /\ \E resp \in LoginResponses :
        /\ IF LoginSucceeds(resp) THEN LoginSuccess(resp) ELSE LoginFailure(resp)
        /\ lastResponse' = resp
    /\ inflight' = Null
    /\ UNCHANGED << sessionStorage, loadVars, viewVars, runs, settled, invocations,
                    probes, timers, redirectUrl, formEvent, submits >>
    /\ UNCHANGED extVars

\* Navbar.tsx 49: the Login link, offered while not authenticated.
GoToLogin ==
    /\ route = HomeRoute
    /\ ~isAuthenticated
    /\ route' = LoginRoute
    /\ navError' = NoError
    /\ UNCHANGED << isAuthenticated, onLoginSuccessCalls, localStorage, sessionStorage,
                    loadVars, viewVars, runs, settled, invocations, probes, timers,
                    redirectUrl, formEvent, loginVars >>
    /\ UNCHANGED extVars

\* App.tsx 156, Login.tsx 19-25: the page /login is loaded anew: the session
\* flag and the form start over, durable storage is kept, a pending request
\* is abandoned.
ReloadLogin ==
    /\ route \in { LoginRoute, HomeRoute }
    /\ route' = LoginRoute
    /\ navError' = NoError
    /\ isAuthenticated' = FALSE
    /\ formData' = [ email |-> << >> ]
    /\ loginLoading' = FALSE
    /\ loginError' = NoError
    /\ inflight' = Null
    /\ lastResponse' = NoResponse
    /\ UNCHANGED << onLoginSuccessCalls, localStorage, sessionStorage, loadVars,
                    viewVars, runs, settled, invocations, probes, timers,
                    redirectUrl, formEvent, submits >>
    /\ abandoned' = << >>
    /\ UNCHANGED << helper, outcome, verify, register, api, flows >>

NoUrl ==
    [ token |-> Null, email |-> Null, code |-> Null, error |-> NoParam,
      error_description |-> NoParam, message |-> NoParam ]

\* A load of /login.
InitLogin ==
    /\ route = LoginRoute
    /\ navError = NoError
    /\ isAuthenticated = FALSE
    /\ onLoginSuccessCalls = 0
    /\ localStorage = NoCredentials
    /\ sessionStorage = FlowStateAbsent
    /\ url = NoUrl
    /\ onBackendPage = FALSE
    /\ strictMode \in BOOLEAN
    /\ ViewInit
    /\ runs = [ r \in Runs |-> IdleRun ]
    /\ settled = NoInput
    /\ invocations = 0
    /\ probes = NoProbes
    /\ timers = << >>
    /\ redirectUrl = NoRedirect
    /\ formEvent = NoFormEvent
    /\ LoginIdle
    /\ ExtIdle

NextLogin ==
    \/ \E e \in Emails : handleChange(e)
    \/ handleSubmit
    \/ LoginSettle
    \/ handleLogout
    \/ GoToLogin
    \/ ReloadLogin

SpecLogin == InitLogin /\ [][NextLogin]_vars

----------------------------------------------------------------------------
(* Properties of the OAuth2 callback view *)

\* spec.md 4.3: AwaitingEmailConfirmation holding the pending token t.
AwaitingEmailConfirmation(t) ==
    /\ Mounted
    /\ showEmailInput
    /\ ~loading
    /\ error = NoError
    /\ token = t

\* The step ends in AwaitingEmailConfirmation holding t.
ReachesConfirmation(t) ==
    /\ Mounted'
    /\ showEmailInput'
    /\ ~loading'
    /\ error' = NoError
    /\ token' = t

\* Run r of handleCallback returns or throws in this step.
Finishes(r) == runs[r].pc # "done" /\ runs'[r].pc = "done" /\ settled'.run = r

\* The channel input consumed in this step carries a token.
DeliversToken == settled'.kind \in { "json", "html", "url" } /\ Truthy(settled'.tok)

C2_EmptyUrlTokenFails ==
    [][ \A r \in Runs :
          url.token = << >> =>
            /\ Finishes(r) => error' # NoError /\ ~showEmailInput'
            /\ ( runs[r].pc = "fetch1" /\ runs'[r].pc # "fetch1"
                 /\ settled'.kind = "html" ) => runs'[r].pc = "done" ]_vars

\* C3: each network probe is issued at most once per page load.
C3_EachProbeAtMostOnce ==
    /\ probes.c1 <= 1
    /\ probes.c2 <= 1
    /\ probes.c4 <= 1

\* The channels a run has attempted are in increasing order.
InPriorityOrder(tr) == \A i, j \in 1 .. Len(tr) : i < j => tr[i] < tr[j]

\* spec.md 4.3: what a channel yields is conclusive when it is a usable token,
\* an `error` parameter, or a `token` parameter that is present but empty.
Conclusive(l) ==
    \/ l.kind \in { "json", "html", "url" } /\ NonBlank(l.tok)
    \/ l.kind \in { "html", "url" } /\ l.tok = << >>
    \/ l.kind = "url" /\ url.error \notin { NoParam, "" }

\* C4: a run attempts its channels in the order 1, 2, 3, 4, and goes on to a
\* later channel only when the channel before yielded nothing conclusive.
C4_ChannelsInPriorityOrder ==
    [][ \A r \in Runs :
          /\ InPriorityOrder(runs'[r].tried)
          /\ ( runs[r].pc \in { "fetch1", "fetch2" }
               /\ runs'[r].pc \in { "fetch2", "fetch3" }
               /\ runs'[r].pc # runs[r].pc ) => ~Conclusive(settled') ]_vars

\* The user accepts the email form in this step.
Confirms ==
    /\ formEvent'.n = formEvent.n + 1
    /\ formEvent'.kind = "submit"
    /\ Trim(userEmail) # << >>

\* C5: confirming a non-blank email E with pending token T leaves token = T
\* and userEmail = trim(E) in localStorage, the session authenticated and the
\* route at '/'.
C5_ConfirmCommits ==
    [][ ( Confirms /\ Truthy(token) ) =>
          /\ localStorage' = [ token |-> token, userEmail |-> Trim(userEmail) ]
          /\ isAuthenticated'
          /\ route' = HomeRoute ]_vars

\* An email that trim() changes was confirmed and stored trimmed.
C5_Witness ==
    /\ formEvent.kind = "submit"
    /\ route = HomeRoute
    /\ isAuthenticated
    /\ localStorage = [ token |-> <<"t">>, userEmail |-> <<"e">> ]
    /\ onLoginSuccessCalls = 1

\* C6: after the email is confirmed, Cancel is pressed or a run fails, none
\* of the three flow-state keys remains in sessionStorage.
C6_FlowStateCleared ==
    [][ ( \/ Confirms
          \/ formEvent'.n = formEvent.n + 1 /\ formEvent'.kind = "cancel"
          \/ Len(timers') > Len(timers) )
        => sessionStorage' = FlowStateAbsent ]_vars

\* C7: localStorage is written and the session flag is raised by no step
\* other than the user's confirmation; the only other change to them is a
\* logout, which clears both.
C7_OnlyConfirmCommits ==
    [][ ( localStorage' # localStorage \/ isAuthenticated' # isAuthenticated ) =>
          \/ Confirms
          \/ isAuthenticated /\ ~isAuthenticated' /\ localStorage' = NoCredentials ]_vars

\* A token is captured and awaits confirmation, nothing is stored yet.
C7_Witness ==
    /\ FormRendered
    /\ NonBlank(token)
    /\ formEvent = NoFormEvent
    /\ localStorage = NoCredentials
    /\ ~isAuthenticated

\* C8: whenever the failure screen is shown, a redirect to /login is pending.
C8_FailureScreenRedirects == FailureScreenShown => timers # << >>

----------------------------------------------------------------------------
(* Properties of the password login form *)

\* The login request settles in this step.
Settles == inflight # Null /\ inflight' = Null /\ lastResponse'.kind # "none"

\* C9: a login with email E answered by 2xx JSON with token T stores
\* token = T and userEmail = E, calls onLoginSuccess exactly once and
\* navigates to '/'.
C9_LoginStoresAndNavigates ==
    [][ ( /\ Settles
          /\ lastResponse'.kind = "http"
          /\ lastResponse'.ok /\ lastResponse'.json /\ lastResponse'.parses
          /\ Truthy(lastResponse'.token) )
        => /\ localStorage' = [ token |-> lastResponse'.token, userEmail |-> inflight ]
           /\ onLoginSuccessCalls' = onLoginSuccessCalls + 1
           /\ isAuthenticated'
           /\ route' = HomeRoute ]_vars

\* A login succeeded: its token is stored and the home page is shown.
C9_Witness ==
    /\ route = HomeRoute
    /\ lastResponse.kind = "http"
    /\ Truthy(lastResponse.token)
    /\ localStorage.token = lastResponse.token
    /\ localStorage.userEmail = <<"e">>
    /\ isAuthenticated

\* Login.tsx 64-82, 100: a non-2xx response, a 2xx response that is not JSON,
\* or a rejected fetch.
LoginFailed(resp) ==
    \/ resp.kind = "rejected"
    \/ resp.kind = "http" /\ ( ~resp.ok \/ ~resp.json )

\* C10: a failed login leaves localStorage unchanged, does not call
\* onLoginSuccess, does not navigate, and displays a message: the server's
\* when the error body carries one.
C10_FailedLoginChangesNothing ==
    [][ ( Settles /\ LoginFailed(lastResponse') )
        => /\ localStorage' = localStorage
           /\ onLoginSuccessCalls' = onLoginSuccessCalls
           /\ isAuthenticated' = isAuthenticated
           /\ route' = route
           /\ loginError' # NoError
           /\ ( /\ lastResponse'.kind = "http"
                /\ lastResponse'.json /\ lastResponse'.parses
                /\ lastResponse'.message # NoError )
              => loginError' = lastResponse'.message ]_vars

\* A login failed with the server's message while credentials of an earlier
\* login are still stored.
C10_Witness ==
    /\ route = LoginRoute
    /\ lastResponse.kind = "http"
    /\ ~lastResponse.ok
    /\ loginError = "Invalid credentials"
    /\ localStorage.token = <<"t">>

\* C11: a login answered by 2xx JSON without a token does not write the
\* token key, and still stores the submitted email, calls onLoginSuccess and
\* navigates to '/'.
C11_LoginWithoutTokenKeepsTokenKey ==
    [][ ( /\ Settles
          /\ lastResponse'.kind = "http"
          /\ lastResponse'.ok /\ lastResponse'.json /\ lastResponse'.parses
          /\ ~Truthy(lastResponse'.token) )
        => /\ localStorage'.token = localStorage.token
           /\ localStorage'.userEmail = inflight
           /\ onLoginSuccessCalls' = onLoginSuccessCalls + 1
           /\ isAuthenticated'
           /\ route' = HomeRoute ]_vars

\* A login without a token succeeded and no token key was written.
C11_Witness ==
    /\ route = HomeRoute
    /\ isAuthenticated
    /\ lastResponse.kind = "http"
    /\ lastResponse.ok /\ lastResponse.parses
    /\ lastResponse.token = Null
    /\ localStorage.token = Null
    /\ localStorage.userEmail = <<" ", "e">>

\* An authentication succeeds in this step: handleLogin is called.
Authenticates == onLoginSuccessCalls' = onLoginSuccessCalls + 1

\* The token the authentication of this step came with: the pending token of
\* the OAuth2 confirmation, or the token of the login response.
AuthenticatedToken == IF formEvent' # formEvent THEN token ELSE lastResponse'.token

\* C12: the stored token and userEmail are both absent or both present, and
\* every successful authentication overwrites both with its own values, so
\* that the two always come from the same authentication.
C12_CredentialsFromOneAuthentication ==
    [][ /\ ( localStorage'.token = Null ) <=> ( localStorage'.userEmail = Null )
        /\ Authenticates =>
              /\ localStorage'.token = AuthenticatedToken
              /\ localStorage'.userEmail # Null ]_vars

----------------------------------------------------------------------------
(* Shared idle values *)

\* No session, nothing stored.
SessionIdle ==
    /\ navError = NoError
    /\ isAuthenticated = FALSE
    /\ onLoginSuccessCalls = 0
    /\ localStorage = NoCredentials

\* The OAuth2 callback view is not in use.
CallbackIdle ==
    /\ url = NoUrl
    /\ onBackendPage = FALSE
    /\ strictMode = FALSE
    /\ ViewInit
    /\ runs = [ r \in Runs |-> IdleRun ]
    /\ settled = NoInput
    /\ invocations = 0
    /\ probes = NoProbes
    /\ timers = << >>
    /\ redirectUrl = NoRedirect
    /\ formEvent = NoFormEvent

----------------------------------------------------------------------------
(* utils/api.ts: the API URL resolver *)

\* Endpoints: the strings of '/' and 'a' up to MaxLen characters.
Endpoints == UNION { [ 1 .. n -> { "/", "a" } ] : n \in 0 .. MaxLen }

\* production.ts 15: the fallback backend origin, 'http://localhost:8080'.
DefaultBackend == <<"l">>

\* Values of VITE_API_BASE_URL: unset, empty, an origin, an origin with a
\* trailing slash.
ConfiguredBases == { Null, << >>, <<"b">>, <<"b", "/">> }

\* String.prototype.startsWith for a one-character prefix.
StartsWith(s, c) == s # << >> /\ Head(s) = c

\* api.ts 13-16, 46-47, local.ts 11, production.ts 15: config.api.baseUrl.
getApiBaseUrl(dev, base) == IF dev THEN << >> ELSE OrElse(base, DefaultBackend)

\* An endpoint that always gets a slash in front.
CleanEndpointAlwaysPrefixed(endpoint) == <<"/">> \o endpoint

\* api.ts 25: cleanEndpoint.
CleanEndpoint(endpoint) ==
    IF StartsWith(endpoint, "/") THEN endpoint ELSE <<"/">> \o endpoint

\* api.ts 23-34: getApiUrl.
getApiUrl(dev, base, endpoint) ==
    LET baseUrl == getApiBaseUrl(dev, base)
    IN  IF ~Truthy(baseUrl) THEN CleanEndpoint(endpoint)
        ELSE baseUrl \o CleanEndpoint(endpoint)

\* A build (development or production, with a configured base) is about to
\* resolve an endpoint.
InitApi ==
    /\ route = HomeRoute
    /\ SessionIdle
    /\ sessionStorage = FlowStateAbsent
    /\ CallbackIdle
    /\ LoginIdle
    /\ helper = NoCall
    /\ outcome = NoOutcome
    /\ verify = VerifyIdle
    /\ register = RegisterIdle
    /\ abandoned = << >>
    /\ flows = << >>
    /\ api \in [ dev : BOOLEAN, base : ConfiguredBases, endpoint : Endpoints,
                  result : { Null } ]

\* getApiUrl(endpoint) is called.
CallGetApiUrl ==
    /\ api.result = Null
    /\ api' = [ api EXCEPT !.result = getApiUrl(api.dev, api.base, api.endpoint) ]
    /\ UNCHANGED << appVars, sessionStorage, loadVars, viewVars, runs, settled,
                    invocations, probes, timers, redirectUrl, formEvent, loginVars,
                    helper, outcome, verify, register, abandoned, flows >>

NextApi == CallGetApiUrl

SpecApi == InitApi /\ [][NextApi]_vars

\* The string begins with exactly one slash.
SingleLeadingSlash(s) == StartsWith(s, "/") /\ ( Len(s) >= 2 => s[2] # "/" )

\* C18 as stated: in development the result is the endpoint with exactly one
\* leading slash and no origin; in production with configured base B it is B
\* followed by that normalized endpoint; the leading slash of the endpoint
\* makes no difference.
C18_SingleLeadingSlash ==
    api.result # Null =>
        LET normalized == getApiUrl(TRUE, Null, api.endpoint)
        IN  /\ SingleLeadingSlash(normalized)
            /\ api.dev => api.result = normalized
            /\ ( ~api.dev /\ Truthy(api.base) ) => api.result = api.base \o normalized
            /\ ~StartsWith(api.endpoint, "/") =>
                  getApiUrl(api.dev, api.base, <<"/">> \o api.endpoint) = api.result

\* C18 amended: in development the result is the endpoint itself when it
\* begins with a slash and the endpoint with one slash in front otherwise, so
\* it has exactly one leading slash unless the endpoint begins with two; in
\* production with a non-empty configured base B it is B followed by that
\* development result; an endpoint without its leading slash yields the same
\* URL as with it.
C18_LeadingSlashGuaranteed ==
    api.result # Null =>
        LET normalized == getApiUrl(TRUE, Null, api.endpoint)
        IN  /\ StartsWith(normalized, "/")
            /\ normalized = api.endpoint <=> StartsWith(api.endpoint, "/")
            /\ normalized # api.endpoint => normalized = <<"/">> \o api.endpoint
            /\ ~( Len(api.endpoint) >= 2 /\ api.endpoint[1] = "/" /\ api.endpoint[2] = "/" )
                  => SingleLeadingSlash(normalized)
            /\ api.dev => api.result = normalized
            /\ ( ~api.dev /\ Truthy(api.base) ) => api.result = api.base \o normalized
            /\ ~StartsWith(api.endpoint, "/") =>
                  getApiUrl(api.dev, api.base, <<"/">> \o api.endpoint) = api.result

\* A production build resolved an endpoint given without its leading slash.
C18_Witness ==
    /\ ~api.dev
    /\ api.endpoint = <<"a">>
    /\ api.result = <<"b", "/", "a">>

----------------------------------------------------------------------------
(* utils/oauth2.ts: the OAuth2 client helper *)

MsgNoAuthUrl == "Authorization URL not received from server"
MsgAuthUrlFailed == "Failed to get authorization URL"
MsgNoProvider == "OAuth2 provider not found in session"
MsgCallbackFailed == "OAuth2 callback failed"

Providers == { <<"google">>, <<"github">> }

\* OAuth2Callback.tsx 170: the provider used when none is stored.
FallbackProvider == <<"google">>

\* window.location.origin and window.location.pathname on the login page.
Origin == <<"origin">>
Pathname == <<"/login">>

\* p is a prefix of s.
IsPrefix(p, s) == Len(p) <= Len(s) /\ SubSeq(s, 1, Len(p)) = p

\* Authorization URLs the backend may return, as sequences of URL pieces:
\* none, absolute, a backend path (/oauth2/.., /api/..), another path, a
\* relative reference.
AuthUrls ==
    { << >>,
      <<"https://", "provider", "/", "auth">>,
      <<"/", "oauth2", "/", "authorize">>,
      <<"/", "api", "/", "authorize">>,
      <<"/", "authorize">>,
      <<"authorize">> }

\* oauth2.ts 46-69: the authorization URL made absolute.
AbsoluteAuthUrl(authUrl) ==
    IF ~Truthy(authUrl) \/ IsPrefix(<<"http://">>, authUrl) \/ IsPrefix(<<"https://">>, authUrl)
    THEN authUrl
    ELSE IF IsPrefix(<<"/">>, authUrl)
    THEN IF IsPrefix(<<"/", "oauth2", "/">>, authUrl) \/ IsPrefix(<<"/", "api", "/">>, authUrl)
         THEN OrElse(getApiBaseUrl(api.dev, api.base), DefaultBackend) \o authUrl
         ELSE Origin \o authUrl
    ELSE Origin \o <<"/">> \o authUrl

\* What GET /api/oauth2/authorization-url/{provider} may answer.
AuthUrlResponses ==
    [ kind : { "rejected" }, ok : { FALSE }, json : { FALSE }, parses : { FALSE },
      message : { NoError }, authUrl : { Null }, token : { Null } ]
    \cup [ kind : { "http" }, ok : { FALSE }, json : BOOLEAN, parses : { FALSE },
           message : { NoError }, authUrl : { Null }, token : { Null } ]
    \cup [ kind : { "http" }, ok : { FALSE }, json : { TRUE }, parses : { TRUE },
           message : ServerMessages \cup { NoError }, authUrl : { Null }, token : { Null } ]
    \cup [ kind : { "http" }, ok : { TRUE }, json : BOOLEAN, parses : { FALSE },
           message : { NoError }, authUrl : { Null }, token : { Null } ]
    \cup [ kind : { "http" }, ok : { TRUE }, json : { TRUE }, parses : { TRUE },
           message : { NoError }, authUrl : AuthUrls, token : { Null } ]

\* oauth2.ts 34-45, 70-73: the error getOAuth2AuthorizationUrl throws, NoError
\* when it returns a URL.
AuthUrlError(resp) ==
    CASE resp.kind = "rejected" -> MsgFetchFailed
      [] ~resp.ok ->
            IF ~resp.parses THEN MsgAuthUrlFailed
            ELSE IF resp.message # NoError THEN resp.message ELSE MsgHttpError
      [] ~resp.json -> MsgExpectedJson
      [] ~resp.parses -> MsgBadJson
      [] OTHER -> NoError

\* The flow state without the provider and the pre-redirect path only.
ClearFlowStateKeepingOrigin(ss) == ClearedByForm(ss)

\* oauth2.ts 100-102, 150-152, 156-158: the three keys are removed.
ClearFlowState(ss) ==
    [ ss EXCEPT !["oauth2_provider"] = Null, !["oauth2_redirect_after_login"] = Null,
                !["oauth2_frontend_origin"] = Null ]

\* The flow state written without the front-end origin.
FlowStateWithoutOrigin(ss, p) ==
    [ ss EXCEPT !["oauth2_provider"] = p, !["oauth2_redirect_after_login"] = Pathname ]

\* oauth2.ts 83-85: the three keys are written.
WriteFlowState(ss, p) ==
    [ ss EXCEPT !["oauth2_provider"] = p, !["oauth2_redirect_after_login"] = Pathname,
                !["oauth2_frontend_origin"] = Origin ]

\* oauth2.ts 80-88: initiateOAuth2Login up to the fetch of the authorization URL.
initiateOAuth2Login(p) ==
    /\ route = LoginRoute
    /\ helper.pc = "idle"
    /\ sessionStorage' = WriteFlowState(sessionStorage, p)
    /\ helper' = [ pc |-> "authUrl", provider |-> p, pathname |-> Pathname ]
    /\ outcome' = NoOutcome
    /\ UNCHANGED << appVars, loadVars, viewVars, runs, settled, invocations, probes,
                    timers, redirectUrl, formEvent, loginVars, verify, register, api,
                    abandoned, flows >>

\* oauth2.ts 22-74, 88-104: the authorization URL request settles; the browser
\* is sent to the URL, or the flow state is removed and the error thrown on.
AuthUrlSettle ==
    /\ PageAlive
    /\ helper.pc = "authUrl"
    /\ \E resp \in AuthUrlResponses :
        LET err == AuthUrlError(resp)
            authUrl == AbsoluteAuthUrl(resp.authUrl)
        IN  IF err = NoError /\ Truthy(authUrl)
            THEN \* line 97
                 /\ route' = Redirected
                 /\ outcome' = [ fn |-> "initiateOAuth2Login", kind |-> "navigated",
                                 error |-> NoError, url |-> authUrl, token |-> Null,
                                 resp |-> resp ]
                 /\ UNCHANGED sessionStorage
            ELSE \* lines 90-92, 98-104
                 /\ sessionStorage' = ClearFlowState(sessionStorage)
                 /\ outcome' = [ fn |-> "initiateOAuth2Login", kind |-> "threw",
                                 error |-> IF err # NoError THEN err ELSE MsgNoAuthUrl,
                                 url |-> Null, token |-> Null, resp |-> resp ]
                 /\ UNCHANGED route
    /\ helper' = NoCall
    /\ UNCHANGED << navError, isAuthenticated, onLoginSuccessCalls, localStorage,
                    loadVars, viewVars, runs, settled, invocations, probes, timers,
                    redirectUrl, formEvent, loginVars, verify, register, api,
                    abandoned, flows >>

\* oauth2.ts 111-138: handleOAuth2Callback up to its fetch; without a stored
\* provider it throws before anything else.
handleOAuth2Callback ==
    /\ route = CallbackRoute
    /\ helper.pc = "idle"
    /\ IF ~Truthy(sessionStorage["oauth2_provider"])
       THEN \* lines 117-119
            /\ outcome' = [ fn |-> "handleOAuth2Callback", kind |-> "threw",
                            error |-> MsgNoProvider, url |-> Null, token |-> Null,
                            resp |-> NoHelperResponse ]
            /\ helper' = NoCall
       ELSE \* lines 121-138
            /\ outcome' = NoOutcome
            /\ helper' = [ pc |-> "exchange", provider |-> sessionStorage["oauth2_provider"],
                           pathname |-> Null ]
    /\ UNCHANGED << appVars, sessionStorage, loadVars, viewVars, runs, settled,
                    invocations, probes, timers, redirectUrl, formEvent, loginVars,
                    verify, register, api,
                    abandoned, flows >>

\* What POST /api/oauth2/callback may answer to the helper.
ExchangeResponses ==
    [ kind : { "rejected" }, ok : { FALSE }, json : { FALSE }, parses : { FALSE },
      message : { NoError }, authUrl : { Null }, token : { Null } ]
    \cup [ kind : { "http" }, ok : { FALSE }, json : BOOLEAN, parses : { FALSE },
           message : { NoError }, authUrl : { Null }, token : { Null } ]
    \cup [ kind : { "http" }, ok : { FALSE }, json : { TRUE }, parses : { TRUE },
           message : ServerMessages \cup { NoError }, authUrl : { Null }, token : { Null } ]
    \cup [ kind : { "http" }, ok : { TRUE }, json : BOOLEAN, parses : { FALSE },
           message : { NoError }, authUrl : { Null }, token : { Null } ]
    \cup [ kind : { "http" }, ok : { TRUE }, json : BOOLEAN, parses : { TRUE },
           message : { NoError }, authUrl : { Null }, token : { Null, <<"t">> } ]

\* oauth2.ts 140-147, 155-160: the error the exchange throws, NoError when it
\* returns the body.  The content type is not looked at.
ExchangeCallError(resp) ==
    CASE resp.kind = "rejected" -> MsgFetchFailed
      [] ~resp.ok ->
            IF ~resp.parses THEN MsgCallbackFailed
            ELSE IF resp.message # NoError THEN resp.message ELSE MsgHttpError
      [] ~resp.parses -> MsgBadJson
      [] OTHER -> NoError

\* oauth2.ts 140-160: the exchange request settles; the flow state is removed
\* and the body returned or the error thrown on.
ExchangeSettle ==
    /\ PageAlive
    /\ helper.pc = "exchange"
    /\ \E resp \in ExchangeResponses :
        LET err == ExchangeCallError(resp)
        IN  outcome' = [ fn |-> "handleOAuth2Callback",
                         kind |-> IF err = NoError THEN "returned" ELSE "threw",
                         error |-> err, url |-> Null,
                         token |-> IF err = NoError THEN resp.token ELSE Null,
                         resp |-> resp ]
    /\ sessionStorage' = ClearFlowState(sessionStorage)
    /\ helper' = NoCall
    /\ UNCHANGED << appVars, loadVars, viewVars, runs, settled, invocations, probes,
                    timers, redirectUrl, formEvent, loginVars, verify, register, api,
                    abandoned, flows >>

\* Session storage as the email form's handlers leave it (OAuth2Callback.tsx
\* 330-332, 404-405).
FlowStateOriginOnly == ClearedByForm(FlowStatePresent)

\* The login page or the callback page of a build, with the flow state an
\* earlier flow left behind.
InitHelper ==
    /\ route \in { LoginRoute, CallbackRoute }
    /\ SessionIdle
    /\ sessionStorage \in { FlowStateAbsent, FlowStatePresent, FlowStateOriginOnly }
    /\ CallbackIdle
    /\ LoginIdle
    /\ helper = NoCall
    /\ outcome = NoOutcome
    /\ verify = VerifyIdle
    /\ register = RegisterIdle
    /\ abandoned = << >>
    /\ flows = << >>
    /\ api \in [ dev : BOOLEAN, base : { Null, <<"b">> }, endpoint : { << >> },
                  result : { Null } ]

NextHelper ==
    \/ \E p \in Providers : initiateOAuth2Login(p)
    \/ AuthUrlSettle
    \/ handleOAuth2Callback
    \/ ExchangeSettle

SpecHelper == InitHelper /\ [][NextHelper]_vars

\* A call of the helper function fn returns, throws or navigates in this step.
EndsCall(fn) == outcome' # outcome /\ outcome'.fn = fn

\* oauth2.ts 34-46, 90: the authorization-URL request was rejected, answered
\* with a non-2xx status, with something that is not JSON, or without a URL.
NoAuthorizationUrl(resp) ==
    \/ resp.kind = "rejected"
    \/ ~resp.ok
    \/ ~resp.json
    \/ ~resp.parses
    \/ ~Truthy(resp.authUrl)

\* C14: when initiateOAuth2Login fails before the browser navigates, none of
\* the three flow-state keys is in sessionStorage when it returns, and the
\* error is thrown on to the caller.
C14_FailedInitiationLeavesNoFlowState ==
    [][ ( EndsCall("initiateOAuth2Login") /\ NoAuthorizationUrl(outcome'.resp) )
        => /\ sessionStorage' = FlowStateAbsent
           /\ route' = route
           /\ outcome'.kind = "threw"
           /\ outcome'.error # NoError
           /\ outcome'.resp.message # NoError => outcome'.error = outcome'.resp.message ]_vars

\* An initiation failed with the server's message and left no flow state.
C14_Witness ==
    /\ outcome.fn = "initiateOAuth2Login"
    /\ outcome.kind = "threw"
    /\ outcome.error = "Invalid credentials"
    /\ sessionStorage = FlowStateAbsent
    /\ route = LoginRoute

C16_ExchangeClearsFlowState ==
    [][ EndsCall("handleOAuth2Callback") => sessionStorage' = FlowStateAbsent ]_vars

\* A call of handleOAuth2Callback starts in this step.
ExchangeCalled ==
    /\ helper.pc = "idle"
    /\ helper'.pc = "exchange" \/ EndsCall("handleOAuth2Callback")

\* C17: a code exchange started without a stored provider still issues its
\* request, with the fallback provider; it does not fail for the missing
\* flow state.
C17_ExchangeFallsBackToDefaultProvider ==
    [][ ( ExchangeCalled /\ ~Truthy(sessionStorage["oauth2_provider"]) )
        => /\ helper'.pc = "exchange"
           /\ helper'.provider = FallbackProvider ]_vars

----------------------------------------------------------------------------
(* Register: the registration form *)

RegisterRoute == "/register"
VerifyRoute == "/verify-email"

MsgPasswordsDiffer == "Passwords do not match"
MsgRegistrationFailed == "Registration failed"
MsgFailedToRegister == "Failed to register user"

Passwords == { << >>, <<"p">> }

\* Register.tsx 31-39: handleChange of the two password fields.
RegisterChange(field, v) ==
    /\ route = RegisterRoute
    /\ register' = [ register EXCEPT ![field] = v, !.error = NoError ]
    /\ UNCHANGED << appVars, sessionStorage, loadVars, viewVars, runs, settled,
                    invocations, probes, timers, redirectUrl, formEvent, loginVars,
                    helper, outcome, verify, api,
                    abandoned, flows >>

\* Register.tsx 59-85, 355: submit, offered while the form is not loading.
RegisterSubmit ==
    /\ route = RegisterRoute
    /\ ~register.loading
    /\ register' =
          IF register.password # register.confirmPassword
          THEN [ register EXCEPT !.error = MsgPasswordsDiffer ]
          ELSE [ register EXCEPT !.loading = TRUE, !.error = NoError,
                                 !.success = FALSE, !.inflight = TRUE ]
    /\ UNCHANGED << appVars, sessionStorage, loadVars, viewVars, runs, settled,
                    invocations, probes, timers, redirectUrl, formEvent, loginVars,
                    helper, outcome, verify, api,
                    abandoned, flows >>

\* What POST /api/auth/register may answer.
RegisterResponses ==
    [ kind : { "rejected" }, ok : { FALSE }, json : { FALSE }, parses : BOOLEAN,
      message : { NoError }, token : { Null } ]
    \cup [ kind : { "http" }, ok : { TRUE }, json : BOOLEAN, parses : BOOLEAN,
           message : { NoError }, token : { Null } ]
    \cup [ kind : { "http" }, ok : { FALSE }, json : { TRUE }, parses : { FALSE },
           message : { NoError }, token : { Null } ]
    \cup [ kind : { "http" }, ok : { FALSE }, json : { TRUE }, parses : { TRUE },
           message : ServerMessages \cup { NoError }, token : { Null } ]

\* Register.tsx 87-93: registration succeeded when the response is 2xx and its
\* body parses; the content type is not looked at.
RegisterSucceeds(resp) == resp.kind = "http" /\ resp.ok /\ resp.parses

\* Register.tsx 87-90, 106-107: the message a failed registration displays.
RegisterErrorMessage(resp) ==
    CASE resp.kind = "rejected" ->
            IF resp.parses THEN MsgFetchFailed ELSE MsgFailedToRegister
      [] resp.kind = "http" /\ ~resp.ok ->
            IF ~resp.parses THEN MsgRegistrationFailed
            ELSE IF resp.message # NoError THEN resp.message ELSE MsgHttpError
      [] OTHER -> MsgBadJson

\* Register.tsx 87-111: the registration request settles.
RegisterSettle ==
    /\ route = RegisterRoute
    /\ register.inflight
    /\ \E resp \in RegisterResponses :
         register' =
           IF RegisterSucceeds(resp)
           THEN [ register EXCEPT !.success = TRUE, !.password = << >>,
                                  !.confirmPassword = << >>, !.loading = FALSE,
                                  !.inflight = FALSE, !.resp = resp ]
           ELSE [ register EXCEPT !.error = RegisterErrorMessage(resp),
                                  !.loading = FALSE, !.inflight = FALSE,
                                  !.resp = resp ]
    /\ UNCHANGED << appVars, sessionStorage, loadVars, viewVars, runs, settled,
                    invocations, probes, timers, redirectUrl, formEvent, loginVars,
                    helper, outcome, verify, api,
                    abandoned, flows >>

----------------------------------------------------------------------------
(* VerifyEmail: the email verification view *)

\* Longest sequence of tokens one instance of the view is rendered with.
MaxShown == 2

\* searchParams.get('token'): absent, empty, or a token.
VerifyTokens == { Null, << >>, <<"a">>, <<"b">> }

\* VerifyEmail.tsx 15-44, 128: one run of the effect, up to its fetch.
RunVerifyEffect(v) ==
    IF v.hasVerifiedRef THEN v
    ELSE IF ~Truthy(v.token)
    THEN [ v EXCEPT !.hasVerifiedRef = TRUE, !.status = "error" ]
    ELSE [ v EXCEPT !.hasVerifiedRef = TRUE, !.status = "loading",
                    !.pending = Append(@, v.token),
                    !.requests = Append(@, v.token) ]

\* VerifyEmail.tsx 5-13, main.tsx 10-16: a new instance of the view, rendered
\* with token t; its effect runs, twice under StrictMode (state and refs are
\* kept between the two runs).
MountVerifyEmail(t) ==
    LET v == [ VerifyIdle EXCEPT !.token = t, !.shown = << t >> ]
    IN  IF strictMode THEN RunVerifyEffect(RunVerifyEffect(v))
        ELSE RunVerifyEffect(v)

\* VerifyEmail.tsx 13, 129: the search parameters change while the view stays
\* mounted; the dependency `token` changed, so the effect runs again.
TokenChange(t) ==
    /\ route = VerifyRoute
    /\ t # verify.token
    /\ Len(verify.shown) < MaxShown
    /\ verify' = RunVerifyEffect([ verify EXCEPT !.token = t,
                                                 !.shown = Append(@, t) ])
    /\ UNCHANGED << appVars, sessionStorage, loadVars, viewVars, runs, settled,
                    invocations, probes, timers, redirectUrl, formEvent, loginVars,
                    helper, outcome, register, api,
                    abandoned, flows >>

\* What GET /api/auth/verify-email may answer.
VerifyResponses ==
    [ kind : { "rejected" }, ok : { FALSE }, json : { FALSE }, parses : { FALSE },
      notFound : { FALSE }, message : { NoError } ]
    \cup [ kind : { "http" }, ok : { TRUE }, json : BOOLEAN, parses : BOOLEAN,
           notFound : { FALSE }, message : { NoError } ]
    \cup [ kind : { "http" }, ok : { FALSE }, json : BOOLEAN, parses : BOOLEAN,
           notFound : BOOLEAN, message : { NoError, "User not found" } ]

\* VerifyEmail.tsx 47-57: a 2xx response is a success, whether or not its body
\* is JSON.
VerifySucceeds(resp) == resp.kind = "http" /\ resp.ok

\* VerifyEmail.tsx 69-78, 103-104: status 404, or a message saying so.
EmailNotFound(resp) ==
    /\ resp.kind = "http"
    /\ ~resp.ok
    /\ resp.notFound \/ (resp.parses /\ resp.message = "User not found")

RemoveAt(seq, i) == SubSeq(seq, 1, i - 1) \o SubSeq(seq, i + 1, Len(seq))

\* VerifyEmail.tsx 46-124: a verification request settles.
VerifySettle ==
    /\ route = VerifyRoute
    /\ \E i \in 1 .. Len(verify.pending) : \E resp \in VerifyResponses :
         verify' =
           [ verify EXCEPT
               !.pending = RemoveAt(@, i),
               !.status = IF VerifySucceeds(resp) THEN "success" ELSE "error",
               !.isEmailNotFound = IF VerifySucceeds(resp) THEN @ ELSE EmailNotFound(resp),
               !.resp = resp ]
    /\ UNCHANGED << appVars, sessionStorage, loadVars, viewVars, runs, settled,
                    invocations, probes, timers, redirectUrl, formEvent, loginVars,
                    helper, outcome, register, api,
                    abandoned, flows >>

----------------------------------------------------------------------------
(* The application: routes, links and page loads *)

\* A fresh Login form (Login.tsx 19-25).
LoginFormReset ==
    /\ formData' = [ email |-> << >> ]
    /\ loginLoading' = FALSE
    /\ loginError' = NoError

\* Navbar.tsx 20-62, Login.tsx 218-219, VerifyEmail.tsx 163-227, and the
\* browser's history inside the running app: the router shows another route.
\* The view that is left is unmounted and its state discarded; a request of
\* Register or VerifyEmail still pending then settles into setters of an
\* unmounted instance.  Leaving /login is followed while no login request
\* is pending.
Navigate(to) ==
    /\ route \in { HomeRoute, LoginRoute, RegisterRoute, VerifyRoute }
    /\ to \in { HomeRoute, LoginRoute, RegisterRoute }
    /\ to # route
    /\ ~(route = HomeRoute /\ to = LoginRoute)
    /\ inflight = Null
    /\ route' = to
    /\ navError' = NoError
    /\ LoginFormReset
    /\ register' = RegisterIdle
    /\ verify' = VerifyIdle
    /\ lastResponse' = NoResponse
    /\ UNCHANGED << isAuthenticated, onLoginSuccessCalls, localStorage,
                    sessionStorage, loadVars, viewVars, runs, settled,
                    invocations, probes, timers, redirectUrl, formEvent,
                    inflight, submits, helper, outcome, api,
                    abandoned, flows >>

\* App.tsx 156, 177: the page /verify-email?token=t is loaded (the link of
\* the verification mail): the app starts over, durable storage is kept.
LoadVerifyEmail(t) ==
    /\ route \in { HomeRoute, LoginRoute, RegisterRoute, VerifyRoute }
    /\ route' = VerifyRoute
    /\ navError' = NoError
    /\ isAuthenticated' = FALSE
    /\ LoginFormReset
    /\ inflight' = Null
    /\ lastResponse' = NoResponse
    /\ register' = RegisterIdle
    /\ verify' = MountVerifyEmail(t)
    /\ UNCHANGED << onLoginSuccessCalls, localStorage, sessionStorage, loadVars,
                    viewVars, runs, settled, invocations, probes, timers,
                    redirectUrl, formEvent, submits, helper, outcome, api, flows >>
    /\ abandoned' = << >>

\* A load of /login, /register or /verify-email.
InitApp ==
    /\ SessionIdle
    /\ sessionStorage = FlowStateAbsent
    /\ url = NoUrl
    /\ onBackendPage = FALSE
    /\ strictMode \in BOOLEAN
    /\ ViewInit
    /\ runs = [ r \in Runs |-> IdleRun ]
    /\ settled = NoInput
    /\ invocations = 0
    /\ probes = NoProbes
    /\ timers = << >>
    /\ redirectUrl = NoRedirect
    /\ formEvent = NoFormEvent
    /\ LoginIdle
    /\ helper = NoCall
    /\ outcome = NoOutcome
    /\ register = RegisterIdle
    /\ abandoned = << >>
    /\ flows = << >>
    /\ api = NoApiCall
    /\ \/ route \in { LoginRoute, RegisterRoute } /\ verify = VerifyIdle
       \/ route = VerifyRoute /\ \E t \in VerifyTokens : verify = MountVerifyEmail(t)

NextApp ==
    \/ \E e \in Emails : handleChange(e)
    \/ handleSubmit
    \/ LoginSettle
    \/ handleLogout
    \/ GoToLogin
    \/ ReloadLogin
    \/ \E f \in { "password", "confirmPassword" }, v \in Passwords : RegisterChange(f, v)
    \/ RegisterSubmit
    \/ RegisterSettle
    \/ \E t \in VerifyTokens : TokenChange(t)
    \/ VerifySettle
    \/ \E to \in { HomeRoute, LoginRoute, RegisterRoute } : Navigate(to)
    \/ \E t \in VerifyTokens : LoadVerifyEmail(t)

SpecApp == InitApp /\ [][NextApp]_vars

----------------------------------------------------------------------------
(* The session flag, the verification requests and the content types *)

SessionBegins == ~isAuthenticated /\ isAuthenticated'
SessionEnds == isAuthenticated /\ ~isAuthenticated'

\* A login request settles in this step.
LoginSettles == inflight # Null /\ inflight' = Null /\ lastResponse'.kind # "none"

\* A page of the application is loaded: App is constructed anew.
PageLoad == ReloadLogin \/ \E t \in VerifyTokens : LoadVerifyEmail(t)

\* C13: the session flag is false after a page load; it becomes true only in
\* the step in which a password login succeeds or the OAuth2 email form is
\* confirmed, and false only at a logout (or at the next page load); failed
\* logins, registration, email verification and navigation leave it alone.
C13_SessionFlagLifecycle ==
    /\ ~isAuthenticated
    /\ [][ /\ PageLoad => ~isAuthenticated'
           /\ SessionBegins =>
                 \/ LoginSettles /\ LoginSucceeds(lastResponse')
                 \/ Confirms
           /\ SessionEnds => handleLogout \/ PageLoad ]_vars

\* A session begun by a login is still there after a registration in the
\* running app.
C13_Witness ==
    /\ isAuthenticated
    /\ onLoginSuccessCalls = 1
    /\ route = RegisterRoute
    /\ register.success

\* Number of times token t is in the sequence seq.
RECURSIVE Count(_, _)
Count(seq, t) ==
    IF seq = << >> THEN 0
    ELSE (IF Head(seq) = t THEN 1 ELSE 0) + Count(Tail(seq), t)

\* C19: the verification view has sent exactly one request for every token
\* it has been rendered with, and none for a missing token.
C19_EveryTokenVerifiedOnce ==
    route = VerifyRoute =>
        \A i \in 1 .. Len(verify.shown) :
            Count(verify.requests, verify.shown[i]) =
                IF Truthy(verify.shown[i]) THEN 1 ELSE 0

\* A response came with a content type that is not JSON.
NotJson(resp) == resp.kind = "http" /\ ~resp.json

\* C20: a response to login, registration or email verification whose
\* content type is not JSON ends in an error, never in success.
C20_NonJsonIsAnError ==
    [][ /\ ( LoginSettles /\ NotJson(lastResponse') )
              => loginError' # NoError /\ isAuthenticated' = isAuthenticated
        /\ ( register.inflight /\ ~register'.inflight /\ NotJson(register'.resp) )
              => register'.error # NoError /\ ~register'.success
        /\ ( route = VerifyRoute /\ route' = VerifyRoute
               /\ Len(verify'.pending) < Len(verify.pending)
               /\ NotJson(verify'.resp) )
              => verify'.status = "error" ]_vars

----------------------------------------------------------------------------
(* Outcomes of the callback view's reconciliation *)

\* The URL carries an `error` parameter.
HasErrorParam == url.error \notin { NoParam, "" }

\* Run r throws into the catch of handleCallback in this step: the message is
\* displayed by the view, when it is still mounted, and carried by the
\* redirect to /login that is scheduled.
FailsWith(r, msg) ==
    /\ Finishes(r)
    /\ timers' = Append(timers, msg)
    /\ Mounted => Mounted' /\ error' = msg /\ ~loading'

\* C21: a run that got nothing from channels 1 and 2 on a URL with an `error`
\* parameter fails with error_description, else message, else the generic
\* text, whether or not `token` or `code` are in the URL too; no code
\* exchange is requested on such a URL.
C21_ErrorParamFails ==
    [][ /\ \A r \in Runs :
             ( Finishes(r) /\ settled'.ch = 3 /\ HasErrorParam )
             => FailsWith(r, IF url.error_description \notin { NoParam, "" }
                             THEN url.error_description
                             ELSE IF url.message \notin { NoParam, "" } THEN url.message
                             ELSE MsgOAuth2Failed)
        /\ HasErrorParam => probes'.c4 = 0 ]_vars

\* An `error` redirect that also carries a token and a code ended on the
\* failure screen with the provider's description, without an exchange.
C21_Witness ==
    /\ FailureScreenShown
    /\ url.token = <<"t">>
    /\ url.code = <<"c">>
    /\ error = "denied by user"
    /\ timers = << "denied by user" >>
    /\ probes.c4 = 0

\* The code exchange of run r settles in this step.
ExchangeSettles(r) == Finishes(r) /\ settled'.ch = 4

\* C22: when the code exchange settles with a non-empty token the view is
\* in AwaitingEmailConfirmation holding it; when it settles in any other way
\* (non-2xx, not JSON, no token or an empty one, a rejected request) the
\* view is in Failed, holds no pending token and does not show the email form.
C22_ExchangeOutcome ==
    [][ \A r \in Runs :
          ( ExchangeSettles(r) /\ Mounted ) =>
             IF settled'.kind = "json" /\ NonBlank(settled'.tok)
             THEN ReachesConfirmation(settled'.tok)
             ELSE /\ Mounted'
                  /\ error' # NoError
                  /\ ~loading'
                  /\ token' = << >>
                  /\ ~showEmailInput' ]_vars

\* C23: a run in which no channel produced a token, on a URL without
\* `token`, `code` and `error`, fails with the generic not-found message; also
\* a re-run after an earlier run on the same load had captured a token.
C23_NothingFoundFails ==
    [][ \A r \in Runs :
          ( /\ Finishes(r)
            /\ settled'.ch = 3
            /\ url.token = Null
            /\ ~Truthy(url.code)
            /\ ~HasErrorParam )
          => FailsWith(r, MsgNotFound) ]_vars

\* spec.md: the three outcomes of a reconciliation as the view holds them.
Pending == loading
Failed == error # NoError
NeedsEmailConfirmation == showEmailInput

\* C25: the mounted view is in at most one of Pending, Failed and
\* NeedsEmailConfirmation; in particular an error and the email-confirmation
\* flag are never set together.
C25_TaggedOutcome ==
    Mounted =>
        /\ ~(Pending /\ Failed)
        /\ ~(Pending /\ NeedsEmailConfirmation)
        /\ ~(Failed /\ NeedsEmailConfirmation)

\* The email form is submitted with a blank email in this step.
BlankSubmit ==
    /\ formEvent'.n = formEvent.n + 1
    /\ formEvent'.kind = "submit"
    /\ Trim(userEmail) = << >>

\* Cancel is pressed in this step.
Cancels == formEvent'.n = formEvent.n + 1 /\ formEvent'.kind = "cancel"

\* C30: a blank submission and Cancel leave localStorage and the session
\* flag as they are; a blank submission also stays on the route and keeps the
\* pending token, and the email form is still there to be confirmed.
C30_BlankSubmitAndCancelKeepState ==
    [][ /\ ( BlankSubmit \/ Cancels )
             => localStorage' = localStorage /\ isAuthenticated' = isAuthenticated
        /\ BlankSubmit
             => /\ route' = route
                /\ token' = token
                /\ FormRendered' ]_vars

----------------------------------------------------------------------------
(* Properties of getOAuth2AuthorizationUrl *)

\* oauth2.ts 88-92: the call of getOAuth2AuthorizationUrl inside the last
\* initiation returned: the browser was sent to its result, or the result was
\* found empty at line 90.
AuthorizationUrlReturned ==
    /\ outcome.fn = "initiateOAuth2Login"
    /\ outcome.kind = "navigated" \/ outcome.error = MsgNoAuthUrl

\* C27: getOAuth2AuthorizationUrl returns only when the response was JSON
\* carrying a URL field; on every other response it throws.
C27_AuthorizationUrlOrThrow ==
    AuthorizationUrlReturned =>
        /\ outcome.resp.kind = "http"
        /\ outcome.resp.ok
        /\ outcome.resp.json
        /\ outcome.resp.parses
        /\ Truthy(outcome.resp.authUrl)

----------------------------------------------------------------------------
(* Login requests that outlive their form *)

\* Login.tsx 218-219 (Register link), Navbar.tsx 20-22 (Main link): the user
\* leaves /login while the login request is pending.  The Login instance is
\* unmounted; its request, and the continuation of handleSubmit waiting for
\* it, stay alive.
LeaveLoginWhilePending(to) ==
    /\ route = LoginRoute
    /\ to \in { HomeRoute, RegisterRoute }
    /\ inflight # Null
    /\ route' = to
    /\ navError' = NoError
    /\ LoginFormReset
    /\ abandoned' = Append(abandoned, inflight)
    /\ inflight' = Null
    /\ lastResponse' = NoResponse
    /\ register' = RegisterIdle
    /\ UNCHANGED << isAuthenticated, onLoginSuccessCalls, localStorage,
                    sessionStorage, loadVars, viewVars, runs, settled,
                    invocations, probes, timers, redirectUrl, formEvent,
                    submits, helper, outcome, verify, api, flows >>

\* Login.tsx 64-105 for a request whose Login instance is unmounted: on
\* success the storage writes, onLoginSuccess and navigate('/') still happen
\* (the view then shown is unmounted, a request of its own stays pending); the
\* state setters of lines 101 and 104 do nothing.
AbandonedSettle ==
    /\ PageAlive
    /\ \E i \in 1 .. Len(abandoned) : \E resp \in LoginResponses :
        /\ lastResponse' = resp
        /\ IF LoginSucceeds(resp)
           THEN /\ localStorage' =
                      [ token |-> IF Truthy(resp.token) THEN resp.token
                                  ELSE localStorage.token,
                        userEmail |-> abandoned[i] ]
                /\ handleLogin
                /\ route' = HomeRoute
                /\ navError' = NoError
                /\ LoginFormReset
                /\ register' = RegisterIdle
                /\ abandoned' = RemoveAt(abandoned, i) \o
                                  (IF inflight # Null THEN << inflight >> ELSE << >>)
                /\ inflight' = Null
           ELSE /\ abandoned' = RemoveAt(abandoned, i)
                /\ UNCHANGED << appVars, formData, loginLoading, loginError,
                                inflight, register >>
    /\ UNCHANGED << sessionStorage, loadVars, viewVars, runs, settled,
                    invocations, probes, timers, redirectUrl, formEvent,
                    submits, helper, outcome, verify, api, flows >>

NextRemount ==
    \/ \E e \in Emails : handleChange(e)
    \/ handleSubmit
    \/ LoginSettle
    \/ handleLogout
    \/ GoToLogin
    \/ ReloadLogin
    \/ \E to \in { HomeRoute, LoginRoute, RegisterRoute } : Navigate(to)
    \/ \E to \in { HomeRoute, RegisterRoute } : LeaveLoginWhilePending(to)
    \/ AbandonedSettle

SpecRemount == InitLogin /\ [][NextRemount]_vars

\* Login requests awaiting their response.
Outstanding == (IF inflight # Null THEN 1 ELSE 0) + Len(abandoned)

\* C28: while a login request is in flight the form is loading (its submit
\* button disabled), so at most one login request is outstanding at any
\* time; when the request settles, in success or in failure, loading is
\* cleared.
C28_OneLoginInFlight ==
    /\ [](inflight # Null => loginLoading)
    /\ [](Outstanding <= 1)
    /\ [][ Settles => ~loginLoading' ]_vars

----------------------------------------------------------------------------
(* Other tabs of the same origin *)

\* App.tsx 162-168 run in another tab: localStorage is shared by the tabs of
\* an origin, the session flag of this tab is not touched (no tab listens to
\* `storage` events).
OtherTabLogout ==
    /\ PageAlive
    /\ localStorage # NoCredentials
    /\ localStorage' = NoCredentials
    /\ UNCHANGED << route, navError, isAuthenticated, onLoginSuccessCalls,
                    sessionStorage, loadVars, viewVars, runs, settled, invocations,
                    probes, timers, redirectUrl, formEvent, loginVars >>
    /\ UNCHANGED extVars

\* Login.tsx 85-91 run in another tab: a login there with email e, answered
\* with token t or without a token.
OtherTabLogin(e, t) ==
    /\ PageAlive
    /\ localStorage' = [ token |-> IF Truthy(t) THEN t ELSE localStorage.token,
                         userEmail |-> e ]
    /\ localStorage' # localStorage
    /\ UNCHANGED << route, navError, isAuthenticated, onLoginSuccessCalls,
                    sessionStorage, loadVars, viewVars, runs, settled, invocations,
                    probes, timers, redirectUrl, formEvent, loginVars >>
    /\ UNCHANGED extVars

NextTabs ==
    \/ \E e \in Emails : handleChange(e)
    \/ handleSubmit
    \/ LoginSettle
    \/ handleLogout
    \/ GoToLogin
    \/ ReloadLogin
    \/ OtherTabLogout
    \/ \E t \in { Null, <<"t">> } : OtherTabLogin(<<"e">>, t)

SpecTabs == InitLogin /\ [][NextTabs]_vars

\* C29: whenever this tab's session flag is set, localStorage holds a
\* userEmail, whatever logins, logouts and reloads happened here and in
\* other tabs of the origin.
C29_AuthenticatedHasUserEmail == isAuthenticated => localStorage.userEmail # Null

----------------------------------------------------------------------------
(* Overlapping calls of initiateOAuth2Login *)

\* Calls of initiateOAuth2Login that may await their response together.
MaxFlows == 2

\* oauth2.ts 80-88: a call of initiateOAuth2Login(p) starts while earlier
\* calls are still waiting for their authorization URL; nothing in the
\* function keeps it from running again.
StartFlow(p) ==
    /\ route = LoginRoute
    /\ Len(flows) < MaxFlows
    /\ sessionStorage' = WriteFlowState(sessionStorage, p)
    /\ flows' = Append(flows, [ provider |-> p, pathname |-> Pathname ])
    /\ outcome' = NoOutcome
    /\ UNCHANGED << appVars, loadVars, viewVars, runs, settled, invocations, probes,
                    timers, redirectUrl, formEvent, loginVars, helper, verify,
                    register, api, abandoned >>

\* oauth2.ts 22-74, 88-104: the authorization-URL request of call i settles.
FlowSettle(i) ==
    /\ PageAlive
    /\ i \in 1 .. Len(flows)
    /\ \E resp \in AuthUrlResponses :
        LET err == AuthUrlError(resp)
            authUrl == AbsoluteAuthUrl(resp.authUrl)
        IN  IF err = NoError /\ Truthy(authUrl)
            THEN \* line 97
                 /\ route' = Redirected
                 /\ outcome' = [ fn |-> "initiateOAuth2Login", kind |-> "navigated",
                                 error |-> NoError, url |-> authUrl, token |-> Null,
                                 resp |-> resp ]
                 /\ UNCHANGED sessionStorage
            ELSE \* lines 90-92, 98-104
                 /\ sessionStorage' = ClearFlowState(sessionStorage)
                 /\ outcome' = [ fn |-> "initiateOAuth2Login", kind |-> "threw",
                                 error |-> IF err # NoError THEN err ELSE MsgNoAuthUrl,
                                 url |-> Null, token |-> Null, resp |-> resp ]
                 /\ UNCHANGED route
    /\ flows' = RemoveAt(flows, i)
    /\ UNCHANGED << navError, isAuthenticated, onLoginSuccessCalls, localStorage,
                    loadVars, viewVars, runs, settled, invocations, probes, timers,
                    redirectUrl, formEvent, loginVars, helper, verify, register,
                    api, abandoned >>

NextFlows ==
    \/ \E p \in Providers : StartFlow(p)
    \/ \E i \in 1 .. MaxFlows : FlowSettle(i)

SpecFlows == InitHelper /\ [][NextFlows]_vars

\* Call i navigates to its authorization URL in this step.
FlowNavigates(i) ==
    /\ i \in 1 .. Len(flows)
    /\ flows' = RemoveAt(flows, i)
    /\ outcome'.kind = "navigated"
    /\ route' = Redirected

\* C24: whatever the interleaving of initiations, a call that goes on to
\* navigate finds in sessionStorage the flow state it wrote itself.
C24_FlowReadsOwnState ==
    [][ \A i \in 1 .. MaxFlows :
          FlowNavigates(i) =>
            /\ sessionStorage["oauth2_provider"] = flows[i].provider
            /\ sessionStorage["oauth2_redirect_after_login"] = flows[i].pathname
            /\ sessionStorage["oauth2_frontend_origin"] = Origin ]_vars

----------------------------------------------------------------------------
(* The guarded route /user-account *)

\* In-app navigation to /user-account (Navbar.tsx 96-97 "View Profile", or
\* the browser's history) without the guard of the route's element.
VisitUserAccountUnguarded ==
    /\ route \in { HomeRoute, LoginRoute }
    /\ inflight = Null
    /\ route' = UserAccountRoute
    /\ navError' = NoError
    /\ LoginFormReset
    /\ lastResponse' = NoResponse
    /\ UNCHANGED << isAuthenticated, onLoginSuccessCalls, localStorage,
                    sessionStorage, loadVars, viewVars, runs, settled,
                    invocations, probes, timers, redirectUrl, formEvent,
                    inflight, submits, helper, outcome, verify, register, api,
                    abandoned, flows >>

\* Navbar.tsx 96-97, App.tsx 182-191: in-app navigation to /user-account
\* (the "View Profile" link, or the browser's history).  The route's element
\* is the account view when the session flag is set and
\* <Navigate to="/login" replace /> otherwise.  The Login form that is left
\* or re-entered starts fresh; followed while no login request is pending.
VisitUserAccount ==
    /\ route \in { HomeRoute, LoginRoute }
    /\ inflight = Null
    /\ route' = IF isAuthenticated THEN UserAccountRoute ELSE LoginRoute
    /\ navError' = NoError
    /\ LoginFormReset
    /\ lastResponse' = NoResponse
    /\ UNCHANGED << isAuthenticated, onLoginSuccessCalls, localStorage,
                    sessionStorage, loadVars, viewVars, runs, settled,
                    invocations, probes, timers, redirectUrl, formEvent,
                    inflight, submits, helper, outcome, verify, register, api,
                    abandoned, flows >>

\* App.tsx 156, 182-191: the page /user-account is loaded (address bar,
\* reload, bookmark): the session flag starts false, so the route's element
\* is the redirect to /login; durable storage is kept.  The page ends in the
\* state a load of /login ends in (ReloadLogin).
LoadUserAccount ==
    /\ route \in { HomeRoute, LoginRoute, UserAccountRoute }
    /\ isAuthenticated' = FALSE
    /\ route' = LoginRoute
    /\ navError' = NoError
    /\ LoginFormReset
    /\ inflight' = Null
    /\ lastResponse' = NoResponse
    /\ abandoned' = << >>
    /\ UNCHANGED << onLoginSuccessCalls, localStorage, sessionStorage, loadVars,
                    viewVars, runs, settled, invocations, probes, timers,
                    redirectUrl, formEvent, submits, helper, outcome, verify,
                    register, api, flows >>

\* Navbar.tsx 20-22, 36-45: the "Main" link, followed from the account view.
LeaveUserAccount ==
    /\ route = UserAccountRoute
    /\ route' = HomeRoute
    /\ navError' = NoError
    /\ UNCHANGED << isAuthenticated, onLoginSuccessCalls, localStorage,
                    sessionStorage, loadVars, viewVars, runs, settled,
                    invocations, probes, timers, redirectUrl, formEvent,
                    loginVars, helper, outcome, verify, register, api,
                    abandoned, flows >>

NextAccount ==
    \/ \E e \in Emails : handleChange(e)
    \/ handleSubmit
    \/ LoginSettle
    \/ handleLogout
    \/ GoToLogin
    \/ VisitUserAccount
    \/ LoadUserAccount
    \/ LeaveUserAccount

SpecAccount == InitLogin /\ [][NextAccount]_vars

\* The account view is on screen.
AccountViewRendered == route = UserAccountRoute

\* C26: the account view is rendered only while the session flag is true,
\* and a visit of /user-account while not authenticated, in the app or by a
\* page load, ends on /login.
C26_AccountRouteGuarded ==
    /\ [](AccountViewRendered => isAuthenticated)
    /\ [][ ((VisitUserAccount /\ ~isAuthenticated) \/ LoadUserAccount)
             => route' = LoginRoute /\ ~AccountViewRendered' ]_vars

\* The account view is shown to an authenticated user.
C26_Witness ==
    /\ AccountViewRendered
    /\ isAuthenticated
    /\ localStorage.userEmail # Null

====
